---- MODULE Spec2Model ----
(***************************************************************************)
(* GitLab token expiration monitor: the classifier                         *)
(* (token_analyzer.py), the aggregator and the orchestration of one        *)
(* monitoring run (main.py), over the API client (gitlab_api.py).          *)
(*                                                                         *)
(* Python dicts are objects with identity: the token dicts built by        *)
(* response.json() live in `heap` and every list of tokens (a fetched      *)
(* batch, a bucket of an analysis) is a sequence of references into it.    *)
(* Time is counted in ticks, TicksPerDay of them to the day; clock is the  *)
(* local system clock datetime.now() reads, modelled as non-decreasing.    *)
(***************************************************************************)
EXTENDS Integers, Sequences, FiniteSets, TLC

VARIABLES
    pc,                 \* position of main() / run_monitoring
    config,             \* the Config object (environment at start-up)
    clock,              \* the system clock, in ticks
    heap,               \* the token dicts, by reference
    all_token_analysis, \* the accumulator of run_monitoring
    scope,              \* which batch is in hand: personal, project, group
    owner,              \* the project / group whose batch is in hand
    tokens,             \* personal_tokens / project_tokens / group_tokens
    analysis,           \* personal_analysis / project_analysis / group_analysis
    threshold_date,     \* analyze_all_tokens' threshold_date, for the batch in hand
    current_date,       \* analyze_all_tokens' current_date, for the batch in hand
    entities,           \* projects / groups being iterated
    idx,                \* position of the for loop over entities
    sent,               \* what _print_summary_and_notify did with the report
    fetched,            \* how the request for the batch in hand ended
    held,               \* how many tokens the platform holds for that batch
    listed,             \* the projects and the groups the API listed in this run
    batches,            \* SpecMerge: the classified batches, as first built
    pool,               \* SpecMerge: the batches not yet merged
    expiring_tokens     \* SpecLegacy: what check_token_expiration returned

vars == <<pc, config, clock, heap, all_token_analysis, scope, owner, tokens,
          analysis, threshold_date, current_date, entities, idx, sent,
          fetched, held, listed, batches, pool, expiring_tokens>>

---------------------------------------------------------------------------
(* Bounds of the model *)

TicksPerDay == 2        \* clock ticks in one day
MaxThreshold == 1       \* DAYS_THRESHOLD ranges over 0..MaxThreshold
MaxClock == 1           \* the clock runs from 0 to MaxClock
PastTicks == 1          \* earliest expires_at, in ticks before 0
MaxRecords == 2         \* token dicts fetched in one run
MaxBatch == 2           \* tokens in one API response
MaxEntities == 2        \* projects (groups) listed in one run
MergeBatches == 3       \* SpecMerge: batches a record set is split into
PerPage == 1            \* projects (groups) on one page of a listing
TokensPerPage == 2      \* tokens the platform returns to one request
MaxUnseen == 1          \* tokens the platform holds beyond its first page
NegThreshold == 1       \* SpecLegacy: DAYS_THRESHOLD from -NegThreshold on

FutureTicks == MaxClock + MaxThreshold * TicksPerDay

---------------------------------------------------------------------------
(* Data model: JSON values and token dicts *)

\* A JSON value found under 'expires_at'.  A string is either the empty
\* string, a malformed text, or an ISO-8601 timestamp given by its wall-clock
\* reading (in ticks) and its UTC designator.
NoneValue == [type |-> "NoneType", text |-> "", wall |-> 0, tz |-> ""]
EmptyStr == [type |-> "str", text |-> "", wall |-> 0, tz |-> ""]
NotADate == [type |-> "str", text |-> "not-a-date", wall |-> 0, tz |-> ""]
IsoStr(w, z) == [type |-> "str", text |-> "iso", wall |-> w, tz |-> z]
NonString == [type |-> "int", text |-> "", wall |-> 1, tz |-> ""]

WallTimes == (0 - PastTicks)..FutureTicks
Designators == {"", "Z", "+05:00"}

\* The values the classifier is checked on (SpecAnalyze) ...
ExpiresAtValues ==
    {NoneValue, EmptyStr, NotADate, NonString}
        \cup {IsoStr(w, "") : w \in WallTimes}
        \cup {IsoStr(TicksPerDay, z) : z \in Designators}

\* ... and those the API returns in a whole run (Spec): no expiry, a
\* malformed text, a number, and the dates 0, 1 and FutureTicks.
RunExpiresAtValues ==
    {NoneValue, NotADate, NonString}
        \cup {IsoStr(w, "") : w \in {0, 1, FutureTicks}}

\* days_until_expiry: unset, an integer, or one of the two sentinels.
DaysUnset == [tag |-> "unset", n |-> 0]
DaysInt(k) == [tag |-> "int", n |-> k]
DaysNever == [tag |-> "Never", n |-> 0]
DaysUnknown == [tag |-> "Unknown", n |-> 0]

\* A token dict as response.json() builds it.  A key the dict does not hold
\* reads "None" (0 for ids).
RawToken(e, uid) ==
    [expires_at |-> e, user_id |-> uid, token_type |-> "None",
     project_id |-> 0, group_id |-> 0,
     status |-> "None", days_until_expiry |-> DaysUnset,
     project_name |-> "None", project_path |-> "None",
     group_name |-> "None", group_path |-> "None"]

Categories == <<"expired", "expiring_soon", "healthy", "no_expiration">>
CategorySet == {Categories[i] : i \in 1..Len(Categories)}

EmptyAnalysis ==
    [expired |-> <<>>, expiring_soon |-> <<>>, healthy |-> <<>>,
     no_expiration |-> <<>>, total_count |-> 0]

Range(s) == {s[i] : i \in 1..Len(s)}

---------------------------------------------------------------------------
(* token_analyzer.py: TokenAnalyzer.analyze_all_tokens *)

\* `not token.get('expires_at')`: Python truthiness of the value.
Truthy(v) ==
    CASE v.type = "NoneType" -> FALSE
      [] v.type = "str" -> v.text # ""
      [] OTHER -> v.wall # 0

\* str.replace('Z', '+00:00')
ReplaceZ(s) == IF s.tz = "Z" THEN [s EXCEPT !.tz = "+00:00"] ELSE s

\* datetime.fromisoformat: an aware or naive datetime, or ValueError.
FromIsoFormat(s) ==
    IF s.text = "iso" /\ s.tz # "Z"
    THEN [ok |-> TRUE, wall |-> s.wall, tzinfo |-> s.tz]
    ELSE [ok |-> FALSE, wall |-> 0, tzinfo |-> ""]

\* Faulty variant: conversion to UTC before the offset is dropped, which
\* moves a reading taken east of Greenwich back (by a tick, at this grain).
ReplaceTzinfoAsUtc(dt) ==
    IF dt.tzinfo \in {"", "+00:00"} THEN dt.wall ELSE dt.wall - 1

\* datetime.replace(tzinfo=None): the wall-clock reading, offset discarded.
ReplaceTzinfoNone(dt) == dt.wall

\* Faulty variant: rounding toward zero.
TimedeltaDaysTrunc(delta) ==
    IF delta >= 0 THEN delta \div TicksPerDay ELSE 0 - ((0 - delta) \div TicksPerDay)

\* timedelta.days of a difference of `delta` ticks (normalised: the seconds
\* part is never negative, so days is the floor).
TimedeltaDays(delta) == delta \div TicksPerDay

\* timedelta(days=days_threshold)
Timedelta(days) == days * TicksPerDay

\* Faulty variant: `<` for `<=` in the Expired test.
BranchStrictExpired(expires_at, cur, thr) ==
    IF expires_at < cur
    THEN [status |-> "Expired", buckets |-> <<"expired">>]
    ELSE IF expires_at <= thr
    THEN [status |-> "Expiring Soon", buckets |-> <<"expiring_soon">>]
    ELSE [status |-> "Healthy", buckets |-> <<"healthy">>]

\* Faulty variant: `if` for `elif`, so an expired record inside the window is
\* appended twice.
BranchNoElif(expires_at, cur, thr) ==
    IF expires_at <= cur
    THEN [status |-> "Expired",
          buckets |-> IF expires_at <= thr
                      THEN <<"expired", "expiring_soon">> ELSE <<"expired">>]
    ELSE IF expires_at <= thr
    THEN [status |-> "Expiring Soon", buckets |-> <<"expiring_soon">>]
    ELSE [status |-> "Healthy", buckets |-> <<"healthy">>]

\* The if / elif / else over the parsed date: the status set and the bucket
\* appended to (a list, for the variants' sake; the code appends to one).
Branch(expires_at, cur, thr) ==
    IF expires_at <= cur
    THEN [status |-> "Expired", buckets |-> <<"expired">>]
    ELSE IF expires_at <= thr
    THEN [status |-> "Expiring Soon", buckets |-> <<"expiring_soon">>]
    ELSE [status |-> "Healthy", buckets |-> <<"healthy">>]

RECURSIVE AppendAll(_, _, _)
AppendAll(result, buckets, ref) ==
    IF buckets = <<>> THEN result
    ELSE AppendAll([result EXCEPT ![Head(buckets)] = Append(@, ref)],
                   Tail(buckets), ref)

\* Faulty variant: a permanent token filed as Healthy.
OnNoExpirationAsHealthy(st, ref) ==
    [st EXCEPT !.heap[ref].status = "Healthy",
               !.heap[ref].days_until_expiry = DaysNever,
               !.result.healthy = Append(@, ref)]

\* The body of the loop for a token without (a truthy) expires_at.
OnNoExpiration(st, ref) ==
    [st EXCEPT !.heap[ref].status = "No Expiration",
               !.heap[ref].days_until_expiry = DaysNever,
               !.result.no_expiration = Append(@, ref)]

\* Faulty variant: the handler appends the token nowhere.
OnValueErrorDropped(st, ref) ==
    [st EXCEPT !.heap[ref].status = "Error",
               !.heap[ref].days_until_expiry = DaysUnknown]

\* Faulty variant: the handler leaves days_until_expiry unset.
OnValueErrorNoDays(st, ref) ==
    [st EXCEPT !.heap[ref].status = "Error",
               !.result.healthy = Append(@, ref)]

\* The except ValueError handler.
OnValueError(st, ref) ==
    [st EXCEPT !.heap[ref].status = "Error",
               !.heap[ref].days_until_expiry = DaysUnknown,
               !.result.healthy = Append(@, ref)]

\* The try body once the date is parsed.
OnParsed(st, ref, expires_at, cur, thr) ==
    LET b == Branch(expires_at, cur, thr) IN
    [st EXCEPT !.heap[ref].days_until_expiry = DaysInt(TimedeltaDays(expires_at - cur)),
               !.heap[ref].status = b.status,
               !.result = AppendAll(@, b.buckets, ref)]

\* One iteration of `for token in tokens`.  A truthy value that is no string
\* has no .replace: AttributeError, which the handler does not catch.
LoopBody(st, ref, cur, thr) ==
    LET e == st.heap[ref].expires_at IN
    IF ~Truthy(e) THEN OnNoExpiration(st, ref)
    ELSE IF e.type # "str" THEN [st EXCEPT !.raised = TRUE]
    ELSE LET dt == FromIsoFormat(ReplaceZ(e)) IN
         IF dt.ok THEN OnParsed(st, ref, ReplaceTzinfoNone(dt), cur, thr)
         ELSE OnValueError(st, ref)

RECURSIVE AnalyzeLoop(_, _, _, _, _)
AnalyzeLoop(st, toks, i, cur, thr) ==
    IF i > Len(toks) \/ st.raised THEN st
    ELSE AnalyzeLoop(LoopBody(st, toks[i], cur, thr), toks, i + 1, cur, thr)

\* Faulty variant: the two readings taken in the other order, current_date
\* first and threshold_date from the later one.
AnalyzeAllTokensThresholdLast(h, toks, days_threshold, now1, now2) ==
    LET thr == now2 + Timedelta(days_threshold)
        cur == now1
    IN  AnalyzeLoop([heap |-> h,
                     result |-> [EmptyAnalysis EXCEPT !.total_count = Len(toks)],
                     raised |-> FALSE,
                     threshold_date |-> thr,
                     current_date |-> cur],
                    toks, 1, cur, thr)

\* analyze_all_tokens(tokens, days_threshold), with the two readings of
\* datetime.now() it takes: now1 for threshold_date, then now2 for
\* current_date.  Gives the heap after the call, the result, and whether the
\* call raised instead of returning.
AnalyzeAllTokens(h, toks, days_threshold, now1, now2) ==
    LET thr == now1 + Timedelta(days_threshold)
        cur == now2
    IN  AnalyzeLoop([heap |-> h,
                     result |-> [EmptyAnalysis EXCEPT !.total_count = Len(toks)],
                     raised |-> FALSE,
                     threshold_date |-> thr,
                     current_date |-> cur],
                    toks, 1, cur, thr)

---------------------------------------------------------------------------
(* gitlab_token_monitoring.py: GitLabTokenMonitor.check_token_expiration *)

\* Faulty variant: `<` for `<=` in the test against threshold_date.
LegacyLoopBodyStrict(st, ref, thr, now) ==
    LET e == st.heap[ref].expires_at IN
    IF ~Truthy(e) THEN st
    ELSE IF e.type # "str" THEN [st EXCEPT !.raised = TRUE]
    ELSE LET dt == FromIsoFormat(ReplaceZ(e)) IN
         IF ~dt.ok THEN st
         ELSE LET expires_at == ReplaceTzinfoNone(dt)
                  days == DaysInt(TimedeltaDays(expires_at - now))
              IN  IF expires_at < thr
                  THEN [st EXCEPT !.heap[ref].days_until_expiry = days,
                                  !.expiring_tokens =
                                      Append(@, [ref |-> ref, days_until_expiry |-> days])]
                  ELSE st

\* One iteration of `for token in tokens`: a token without (a truthy)
\* expires_at is skipped, a text that does not parse is reported and skipped
\* (except ValueError), a truthy value that is no string has no .replace
\* (AttributeError, not caught).  A token at or before threshold_date gets
\* days_until_expiry from a fresh reading `now` of the clock and is appended;
\* the entry keeps the value written, beside the reference to the dict.
LegacyLoopBody(st, ref, thr, now) ==
    LET e == st.heap[ref].expires_at IN
    IF ~Truthy(e) THEN st
    ELSE IF e.type # "str" THEN [st EXCEPT !.raised = TRUE]
    ELSE LET dt == FromIsoFormat(ReplaceZ(e)) IN
         IF ~dt.ok THEN st
         ELSE LET expires_at == ReplaceTzinfoNone(dt)
                  days == DaysInt(TimedeltaDays(expires_at - now))
              IN  IF expires_at <= thr
                  THEN [st EXCEPT !.heap[ref].days_until_expiry = days,
                                  !.expiring_tokens =
                                      Append(@, [ref |-> ref, days_until_expiry |-> days])]
                  ELSE st

RECURSIVE LegacyLoop(_, _, _, _, _)
LegacyLoop(st, toks, i, thr, nows) ==
    IF i > Len(toks) \/ st.raised THEN st
    ELSE LegacyLoop(LegacyLoopBody(st, toks[i], thr, nows[i]), toks, i + 1,
                    thr, nows)

\* check_token_expiration(tokens, days_threshold): now1 is the reading of
\* the clock threshold_date is made from, nows[i] the reading taken for the
\* i-th token.  Gives the heap after the call, the list returned, and whether
\* the call raised instead of returning.
CheckTokenExpiration(h, toks, days_threshold, now1, nows) ==
    LegacyLoop([heap |-> h, expiring_tokens |-> <<>>, raised |-> FALSE],
               toks, 1, now1 + Timedelta(days_threshold), nows)

---------------------------------------------------------------------------
(* main.py: GitLabTokenMonitor._merge_analysis *)

\* Faulty variant: assignment for extend.
MergeAnalysisReplace(all_analysis, new_analysis) ==
    [expired |-> new_analysis.expired,
     expiring_soon |-> new_analysis.expiring_soon,
     healthy |-> new_analysis.healthy,
     no_expiration |-> new_analysis.no_expiration,
     total_count |-> all_analysis.total_count + new_analysis.total_count]

\* Faulty variant: the addition goes in front.
MergeAnalysisPrepend(all_analysis, new_analysis) ==
    [expired |-> new_analysis.expired \o all_analysis.expired,
     expiring_soon |-> new_analysis.expiring_soon \o all_analysis.expiring_soon,
     healthy |-> new_analysis.healthy \o all_analysis.healthy,
     no_expiration |-> new_analysis.no_expiration \o all_analysis.no_expiration,
     total_count |-> all_analysis.total_count + new_analysis.total_count]

\* Faulty variant: of each bucket of the addition only the first record is
\* taken over.
MergeAnalysisHeadOnly(all_analysis, new_analysis) ==
    [c \in DOMAIN all_analysis |->
        IF c = "total_count"
        THEN all_analysis.total_count + new_analysis.total_count
        ELSE IF new_analysis[c] = <<>> THEN all_analysis[c]
        ELSE Append(all_analysis[c], Head(new_analysis[c]))]

\* Faulty variant: total_count assigned, not added.
MergeAnalysisTotalAssigned(all_analysis, new_analysis) ==
    [expired |-> all_analysis.expired \o new_analysis.expired,
     expiring_soon |-> all_analysis.expiring_soon \o new_analysis.expiring_soon,
     healthy |-> all_analysis.healthy \o new_analysis.healthy,
     no_expiration |-> all_analysis.no_expiration \o new_analysis.no_expiration,
     total_count |-> new_analysis.total_count]

\* all_analysis[category].extend(new_analysis[category]) for the four
\* categories, and total_count += new_analysis['total_count'].
MergeAnalysis(all_analysis, new_analysis) ==
    [expired |-> all_analysis.expired \o new_analysis.expired,
     expiring_soon |-> all_analysis.expiring_soon \o new_analysis.expiring_soon,
     healthy |-> all_analysis.healthy \o new_analysis.healthy,
     no_expiration |-> all_analysis.no_expiration \o new_analysis.no_expiration,
     total_count |-> all_analysis.total_count + new_analysis.total_count]

---------------------------------------------------------------------------
(* token_analyzer.py: group_tokens_by_type, get_summary_stats *)

\* group_tokens_by_type(tokens): three list comprehensions over the same
\* list.  A key the dict does not hold reads falsy.
GroupTokensByType(h, toks) ==
    [personal |-> SelectSeq(toks, LAMBDA r :
                     h[r].user_id # 0 /\ h[r].token_type = "None"),
     project |-> SelectSeq(toks, LAMBDA r : h[r].token_type = "project"),
     group |-> SelectSeq(toks, LAMBDA r : h[r].token_type = "group")]

GetSummaryStats(token_analysis) ==
    [total_tokens |-> token_analysis.total_count,
     expired_count |-> Len(token_analysis.expired),
     expiring_count |-> Len(token_analysis.expiring_soon),
     healthy_count |-> Len(token_analysis.healthy),
     permanent_count |-> Len(token_analysis.no_expiration),
     problematic_count |-> Len(token_analysis.expired)
                             + Len(token_analysis.expiring_soon)]

---------------------------------------------------------------------------
(* The environment: configuration, API responses, elapsed time *)

\* The environment variables Config reads.  An unset variable reads as its
\* placeholder default; a variable can also be set to the empty string.
Environments ==
    [gitlab_url : {"https://your-gitlab.com", "", "https://gitlab.example.org"},
     days_threshold : 0..MaxThreshold,
     include_project_tokens : BOOLEAN,
     include_group_tokens : BOOLEAN,
     send_all_tokens : BOOLEAN,
     admin_token : {"your-admin-token", "", "glpat-secret"},
     from_email : {"alerts@yourcompany.com", "", "ops@example.org"}]

SeqsUpTo(S, n) == UNION {[1..k -> S] : k \in 0..n}

\* The token dicts an API response can carry.  Personal tokens come with or
\* without an owner (user_id); project and group tokens belong to a bot user.
PersonalTokens ==
    {RawToken(e, 1) : e \in RunExpiresAtValues}
        \cup {RawToken(IsoStr(0, ""), 0)}

ScopedTokens == {RawToken(e, 1) : e \in RunExpiresAtValues}

\* The token lists one API response can carry: at most MaxBatch dicts, and at
\* most MaxRecords dicts in the whole run.
Responses(dicts) ==
    {r \in SeqsUpTo(dicts, MaxBatch) : Len(heap) + Len(r) <= MaxRecords}

\* The references of the dicts a response of n tokens allocates.
FreshRefs(n) == [i \in 1..n |-> Len(heap) + i]

\* The project (group) lists the API can return.
Entity(k, kind, withPath) ==
    [id |-> k,
     name |-> kind \o "-" \o ToString(k),
     path |-> IF withPath THEN "ns/" \o kind \o "-" \o ToString(k) ELSE "None"]

NoOwner == [id |-> 0, name |-> "None", path |-> "None"]

\* Up to MaxEntities of them; the listing carries the path key or omits it.
EntityLists(kind) ==
    {[k \in 1..n |-> Entity(k, kind, wp)] : n \in 0..MaxEntities, wp \in BOOLEAN}

---------------------------------------------------------------------------
(* main.py: main, GitLabTokenMonitor *)

\* No project and no group listed yet.
NoListing == [project |-> <<>>, group |-> <<>>]

NoNotification ==
    [called |-> FALSE, include_all_tokens |-> "None", outcome |-> "none",
     rows |-> 0]

Init ==
    /\ pc = "main"
    /\ config \in Environments
    /\ clock = 0
    /\ heap = <<>>
    /\ all_token_analysis = EmptyAnalysis
    /\ scope = "personal"
    /\ owner = NoOwner
    /\ tokens = <<>>
    /\ analysis = EmptyAnalysis
    /\ threshold_date = 0
    /\ current_date = 0
    /\ entities = <<>>
    /\ idx = 0
    /\ sent = NoNotification
    /\ fetched = "none"
    /\ held = 0
    /\ listed = NoListing
    /\ expiring_tokens = <<>>
    /\ batches = <<>>
    /\ pool = {}

\* Config._validate_config
ConfigValid(c) ==
    /\ c.admin_token # "" /\ c.admin_token # "your-admin-token"
    /\ c.from_email # "" /\ c.from_email # "alerts@yourcompany.com"

\* Faulty variant: a bare `except:` that prints and returns, whatever was
\* raised.
MainExceptBare(exc) == "swallowed"

\* The except clauses of main, by the class of what the try body raised, as
\* the position main ends at.  KeyboardInterrupt and ImportError are printed
\* and main returns; any other Exception is printed and raised again;
\* SystemExit is no Exception, so no clause takes it and sys.exit(1) ends the
\* process with status 1.
MainExcept(exc) ==
    CASE exc = "KeyboardInterrupt" -> "interrupted"
      [] exc = "ImportError" -> "import_error"
      [] exc = "SystemExit" -> "exit"
      [] OTHER -> "raised"

\* main: GitLabTokenMonitor() builds Config, which validates or exits.
Construct ==
    /\ pc = "main"
    /\ pc' = IF ConfigValid(config) THEN "fetch_personal"
             ELSE MainExcept("SystemExit")
    /\ UNCHANGED <<config, clock, heap, all_token_analysis, scope, owner,
                   tokens, analysis, threshold_date, current_date, entities,
                   idx, sent, fetched, held, listed, batches, pool,
                   expiring_tokens>>

\* requests.get reaches a GitLab instance only at a real address: at the
\* placeholder or at an empty base URL every request ends in a
\* RequestException.
Reachable(c) == c.gitlab_url \notin {"https://your-gitlab.com", ""}

\* Where run_monitoring goes once the batches of scope s are done.
AfterScope(s) ==
    IF s = "personal" /\ config.include_project_tokens THEN "list_projects"
    ELSE IF s # "group" /\ config.include_group_tokens THEN "list_groups"
    ELSE "notify"

\* The token requests carry no page parameter and are made once: of the n
\* tokens the platform holds for the batch, the response lists the first
\* page.
FirstPageLen(n) == IF n <= TokensPerPage THEN n ELSE TokensPerPage

\* Faulty variant: the RequestException is not caught.
TokensOrRaise(failed, r) ==
    [tokens |-> IF failed THEN <<>> ELSE r, raised |-> failed]

\* The try / except of get_personal_access_tokens, get_project_access_tokens
\* and get_group_access_tokens: the list response.json() gives, or, when the
\* request or raise_for_status ends in a RequestException, the error printed
\* and [] returned.
TokensOrEmpty(failed, r) ==
    [tokens |-> IF failed THEN <<>> ELSE r, raised |-> FALSE]

\* gitlab_api.get_personal_access_tokens: the response, or [] on a failure.
GetPersonalAccessTokens ==
    /\ pc = "fetch_personal"
    /\ \E failed \in BOOLEAN, r \in Responses(PersonalTokens),
          n \in 0..(MaxBatch + MaxUnseen) :
          /\ ~Reachable(config) => failed
          /\ failed => r = <<>> /\ n = 0
          /\ Len(r) = FirstPageLen(n)
          /\ held' = n
          /\ LET res == TokensOrEmpty(failed, r) IN
                /\ fetched' = IF failed THEN "failed" ELSE "ok"
                /\ heap' = heap \o res.tokens
                /\ tokens' = FreshRefs(Len(res.tokens))
                /\ pc' = IF res.raised THEN MainExcept("RequestException")
                         ELSE "analyze"
    /\ scope' = "personal"
    /\ UNCHANGED <<config, clock, all_token_analysis, owner, analysis,
                   threshold_date, current_date, entities, idx, sent, listed,
                   batches, pool, expiring_tokens>>

\* analyzer.analyze_all_tokens on the batch in hand.  The clock is read twice:
\* now1 after the time the fetches since the last reading took, now2 after
\* the time that passes between the two readings.  An exception leaves
\* run_monitoring and main (which re-raises it).
Analyze ==
    /\ pc = "analyze"
    /\ \E now1 \in clock..MaxClock :
       \E now2 \in now1..MaxClock :
          LET r == AnalyzeAllTokens(heap, tokens, config.days_threshold,
                                    now1, now2)
          IN  /\ clock' = now2
              /\ held' = 0
              /\ heap' = r.heap
              /\ threshold_date' = r.threshold_date
              /\ current_date' = r.current_date
              /\ analysis' = IF r.raised THEN analysis ELSE r.result
              /\ pc' = IF r.raised THEN MainExcept("AttributeError")
                       ELSE IF scope = "personal" THEN "merge" ELSE "attach"
    /\ UNCHANGED <<config, all_token_analysis, scope, owner, tokens, entities,
                   idx, sent, fetched, listed, batches, pool, expiring_tokens>>

\* The references held by the four buckets of an analysis.
Refs(a) == UNION {Range(a[c]) : c \in CategorySet}

\* Faulty variant: the owner's name and path are written to every token dict
\* fetched so far, those of batches merged earlier included.
AttachScopeMetadataAll(h, a, s, ent) ==
    [r \in DOMAIN h |->
        IF s = "project"
        THEN [h[r] EXCEPT !.project_name = ent.name,
                          !.project_path = IF ent.path = "None" THEN ent.name
                                           ELSE ent.path]
        ELSE [h[r] EXCEPT !.group_name = ent.name,
                          !.group_path = IF ent.path = "None" THEN ent.name
                                         ELSE ent.path]]

\* Faulty variant: the annotated record is built anew from the fetched fields,
\* which loses the two computed ones.
AttachScopeMetadataRebuilt(h, a, s, ent) ==
    [r \in DOMAIN h |->
        IF r \notin UNION {Range(a[c]) : c \in CategorySet} THEN h[r]
        ELSE IF s = "project"
        THEN [h[r] EXCEPT !.project_name = ent.name,
                          !.project_path = IF ent.path = "None" THEN ent.name
                                           ELSE ent.path,
                          !.status = "None",
                          !.days_until_expiry = DaysUnset]
        ELSE [h[r] EXCEPT !.group_name = ent.name,
                          !.group_path = IF ent.path = "None" THEN ent.name
                                         ELSE ent.path,
                          !.status = "None",
                          !.days_until_expiry = DaysUnset]]

\* Faulty variant: dict.get without its default, so a project without
\* path_with_namespace (a group without full_path) leaves the path None.
AttachScopeMetadataNoDefault(h, a, s, ent) ==
    [r \in DOMAIN h |->
        IF r \notin UNION {Range(a[c]) : c \in CategorySet} THEN h[r]
        ELSE IF s = "project"
        THEN [h[r] EXCEPT !.project_name = ent.name, !.project_path = ent.path]
        ELSE [h[r] EXCEPT !.group_name = ent.name, !.group_path = ent.path]]

\* "Add project info to tokens" / "Add group info to tokens": the two nested
\* loops over the four buckets of the batch's analysis.
AttachScopeMetadata(h, a, s, ent) ==
    [r \in DOMAIN h |->
        IF r \notin Refs(a) THEN h[r]
        ELSE IF s = "project"
        THEN [h[r] EXCEPT !.project_name = ent.name,
                          !.project_path = IF ent.path = "None" THEN ent.name
                                           ELSE ent.path]
        ELSE [h[r] EXCEPT !.group_name = ent.name,
                          !.group_path = IF ent.path = "None" THEN ent.name
                                         ELSE ent.path]]

Attach ==
    /\ pc = "attach"
    /\ heap' = AttachScopeMetadata(heap, analysis, scope, owner)
    /\ pc' = "merge"
    /\ UNCHANGED <<config, clock, all_token_analysis, scope, owner, tokens,
                   analysis, threshold_date, current_date, entities, idx,
                   sent, fetched, held, listed, batches, pool, expiring_tokens>>

\* self._merge_analysis(all_token_analysis, <batch>_analysis), then on to the
\* next project / group, or to the next part of run_monitoring.
Merge ==
    /\ pc = "merge"
    /\ all_token_analysis' = MergeAnalysis(all_token_analysis, analysis)
    /\ threshold_date' = 0
    /\ current_date' = 0
    /\ fetched' = "none"
    /\ IF scope = "personal"
       THEN pc' = AfterScope(scope) /\ idx' = idx
       ELSE pc' = "for" /\ idx' = idx + 1
    /\ UNCHANGED <<config, clock, heap, scope, owner, tokens, analysis,
                   entities, sent, held, listed, batches, pool,
                   expiring_tokens>>

\* The pages the platform cuts the list full into, PerPage entries to the
\* page.
RECURSIVE PagesOf(_)
PagesOf(full) ==
    IF Len(full) <= PerPage
    THEN IF full = <<>> THEN <<>> ELSE <<full>>
    ELSE <<SubSeq(full, 1, PerPage)>>
           \o PagesOf(SubSeq(full, PerPage + 1, Len(full)))

\* The while loop of get_all_projects / get_all_groups from the request for
\* page `page` on, with the entries of the earlier pages in got.  The request
\* fail_at (0: none) ends in a RequestException, which is caught outside the
\* loop; a request past the last page answers with the empty list.  Either
\* way what was gathered so far is returned.
RECURSIVE GetAll(_, _, _, _)
GetAll(pages, fail_at, page, got) ==
    IF page = fail_at THEN [list |-> got, failed |-> TRUE]
    ELSE IF page > Len(pages) THEN [list |-> got, failed |-> FALSE]
    ELSE GetAll(pages, fail_at, page + 1, got \o pages[page])

\* gitlab_api.get_all_projects / get_all_groups, at the head of
\* _process_project_tokens / _process_group_tokens, whose locals start afresh
\* (the personal batch is read no more).
ListEntities(at, s) ==
    /\ pc = at
    /\ \E full \in EntityLists(s), fail_at \in 0..(MaxEntities + 1) :
          /\ fail_at <= Len(PagesOf(full)) + 1
          /\ ~Reachable(config) => fail_at = 1
          /\ LET res == GetAll(PagesOf(full), fail_at, 1, <<>>) IN
                /\ entities' = res.list
                /\ listed' = [listed EXCEPT ![s] = res.list]
                /\ fetched' = IF res.failed THEN "listing_failed" ELSE "none"
    /\ scope' = s
    /\ idx' = 1
    /\ tokens' = <<>>
    /\ analysis' = EmptyAnalysis
    /\ pc' = "for"
    /\ UNCHANGED <<config, clock, heap, all_token_analysis, owner,
                   threshold_date, current_date, sent, held, batches, pool,
                   expiring_tokens>>

GetAllProjects == ListEntities("list_projects", "project")

GetAllGroups == ListEntities("list_groups", "group")

\* gitlab_api.get_project_access_tokens / get_group_access_tokens: every
\* dict of the response is tagged with its type and the owner's id.
Tagged(r, s, ent) ==
    [i \in 1..Len(r) |->
        IF s = "project"
        THEN [r[i] EXCEPT !.token_type = "project", !.project_id = ent.id]
        ELSE [r[i] EXCEPT !.token_type = "group", !.group_id = ent.id]]

\* The loop body up to `if project_tokens:` (`if group_tokens:`): fetch the
\* batch of entities[idx]; an empty batch goes straight to the next one.
GetAccessTokens ==
    /\ pc = "for"
    /\ idx <= Len(entities)
    /\ owner' = entities[idx]
    /\ \E failed \in BOOLEAN, r \in Responses(ScopedTokens),
          n \in 0..(MaxBatch + MaxUnseen) :
          /\ ~Reachable(config) => failed
          /\ failed => r = <<>> /\ n = 0
          /\ Len(r) = FirstPageLen(n)
          /\ held' = n
          /\ LET res == TokensOrEmpty(failed, r) IN
                /\ fetched' = IF failed THEN "failed" ELSE "ok"
                /\ heap' = heap \o Tagged(res.tokens, scope, entities[idx])
                /\ tokens' = FreshRefs(Len(res.tokens))
                /\ IF res.raised
                   THEN pc' = MainExcept("RequestException") /\ idx' = idx
                   ELSE IF res.tokens = <<>>
                   THEN pc' = "for" /\ idx' = idx + 1
                   ELSE pc' = "analyze" /\ idx' = idx
    /\ UNCHANGED <<config, clock, all_token_analysis, scope, analysis,
                   threshold_date, current_date, entities, sent, listed,
                   batches, pool, expiring_tokens>>

\* The loop is over: _process_project_tokens / _process_group_tokens counts
\* its statistics and returns, and its locals are gone.
ReturnStats ==
    /\ pc = "for"
    /\ idx > Len(entities)
    /\ pc' = AfterScope(scope)
    /\ owner' = NoOwner
    /\ tokens' = <<>>
    /\ analysis' = EmptyAnalysis
    /\ entities' = <<>>
    /\ idx' = 0
    /\ fetched' = "none"
    /\ UNCHANGED <<config, clock, heap, all_token_analysis, scope,
                   threshold_date, current_date, sent, held, listed, batches,
                   pool, expiring_tokens>>

\* email_reporter._create_comprehensive_email_body: how many rows the tables
\* of the report have.  Each bucket is grouped by type and every non-empty
\* group is rendered by _create_token_table, one row to the token.
ReportRows(h, token_analysis) ==
    LET by_type(c) == GroupTokensByType(h, token_analysis[c])
        rows(c) == Len(by_type(c).personal) + Len(by_type(c).project)
                     + Len(by_type(c).group)
    IN  rows("expired") + rows("expiring_soon") + rows("healthy")
          + rows("no_expiration")

\* Faulty variant: send_notification is called whatever the statistics.
ShouldNotifyAlways(c, stats) == TRUE

\* The orchestrator's gate (main.py, `if self.config.send_all_tokens or
\* stats['problematic_count'] > 0`).
ShouldNotify(c, stats) == c.send_all_tokens \/ stats.problematic_count > 0

\* Faulty variant: the delivery runs outside any try, so an SMTP error leaves
\* send_notification as an exception.
SendNotificationUncaught(token_analysis, include_all_tokens, smtp_ok) ==
    LET stats == GetSummaryStats(token_analysis) IN
    IF ~include_all_tokens /\ stats.problematic_count = 0
    THEN [outcome |-> "skipped", raised |-> FALSE]
    ELSE IF smtp_ok THEN [outcome |-> "delivered", raised |-> FALSE]
    ELSE [outcome |-> "failed", raised |-> TRUE]

\* email_reporter.send_notification: the reporter's own gate, then the
\* delivery (connect, login, send_message) inside try / except Exception,
\* which prints the error and returns.  smtp_ok tells whether the SMTP
\* exchange goes through.
SendNotification(token_analysis, include_all_tokens, smtp_ok) ==
    LET stats == GetSummaryStats(token_analysis) IN
    IF ~include_all_tokens /\ stats.problematic_count = 0
    THEN [outcome |-> "skipped", raised |-> FALSE]
    ELSE IF smtp_ok THEN [outcome |-> "delivered", raised |-> FALSE]
    ELSE [outcome |-> "failed", raised |-> FALSE]

\* _print_summary_and_notify: the statistics, the gate, the call of
\* send_notification with include_all_tokens stored in the analysis (the
\* body of the report is built before the delivery is tried), and
\* "Monitoring complete!".
PrintSummaryAndNotify ==
    /\ pc = "notify"
    /\ LET stats == GetSummaryStats(all_token_analysis) IN
       IF ShouldNotify(config, stats)
       THEN \E smtp_ok \in BOOLEAN :
               LET res == SendNotification(all_token_analysis,
                                           config.send_all_tokens, smtp_ok)
               IN  /\ sent' = [called |-> TRUE,
                               include_all_tokens |->
                                   IF config.send_all_tokens THEN "True"
                                   ELSE "False",
                               outcome |-> res.outcome,
                               rows |-> IF res.outcome = "skipped" THEN 0
                                        ELSE ReportRows(heap,
                                                        all_token_analysis)]
                   /\ pc' = IF res.raised THEN MainExcept("SMTPException")
                            ELSE "complete"
       ELSE sent' = sent /\ pc' = "complete"
    /\ UNCHANGED <<config, clock, heap, all_token_analysis, scope, owner,
                   tokens, analysis, threshold_date, current_date, entities,
                   idx, fetched, held, listed, batches, pool, expiring_tokens>>

Next ==
    \/ Construct
    \/ GetPersonalAccessTokens
    \/ Analyze
    \/ Attach
    \/ Merge
    \/ GetAllProjects
    \/ GetAllGroups
    \/ GetAccessTokens
    \/ ReturnStats
    \/ PrintSummaryAndNotify

Spec == Init /\ [][Next]_vars

---------------------------------------------------------------------------
(* SpecAnalyze: analyze_all_tokens alone, on every batch of at most MaxBatch
   tokens over ExpiresAtValues, every threshold and every pair of clock
   readings *)

DefaultEnvironment(days) ==
    [gitlab_url |-> "https://gitlab.example.org",
     days_threshold |-> days,
     include_project_tokens |-> TRUE,
     include_group_tokens |-> TRUE,
     send_all_tokens |-> FALSE,
     admin_token |-> "glpat-secret",
     from_email |-> "ops@example.org"]

InitAnalyze ==
    /\ pc = "analyze"
    /\ \E days \in 0..MaxThreshold : config = DefaultEnvironment(days)
    /\ clock = 0
    /\ heap \in SeqsUpTo({RawToken(e, 1) : e \in ExpiresAtValues}, MaxBatch)
    /\ tokens = [i \in 1..Len(heap) |-> i]
    /\ all_token_analysis = EmptyAnalysis
    /\ scope = "personal"
    /\ owner = NoOwner
    /\ analysis = EmptyAnalysis
    /\ threshold_date = 0
    /\ current_date = 0
    /\ entities = <<>>
    /\ idx = 0
    /\ sent = NoNotification
    /\ fetched = "none"
    /\ held = Len(heap)
    /\ listed = NoListing
    /\ expiring_tokens = <<>>
    /\ batches = <<>>
    /\ pool = {}

SpecAnalyze == InitAnalyze /\ [][Analyze]_vars

---------------------------------------------------------------------------
(* SpecLegacy: check_token_expiration and analyze_all_tokens on one token
   list, with one threshold, at one instant of a clock that stands still *)

InitLegacy ==
    /\ pc = "compare"
    /\ \E days \in (0 - NegThreshold)..MaxThreshold :
          config = DefaultEnvironment(days)
    /\ clock \in 0..MaxClock
    /\ heap \in SeqsUpTo({RawToken(e, 1) : e \in ExpiresAtValues}, MaxBatch)
    /\ tokens = [i \in 1..Len(heap) |-> i]
    /\ all_token_analysis = EmptyAnalysis
    /\ scope = "personal"
    /\ owner = NoOwner
    /\ analysis = EmptyAnalysis
    /\ threshold_date = 0
    /\ current_date = 0
    /\ entities = <<>>
    /\ idx = 0
    /\ sent = NoNotification
    /\ fetched = "none"
    /\ held = Len(heap)
    /\ listed = NoListing
    /\ expiring_tokens = <<>>
    /\ batches = <<>>
    /\ pool = {}

\* The legacy check, then the analyzer, on the same list of dicts, every
\* reading of the clock giving the same instant.
Compare ==
    /\ pc = "compare"
    /\ LET l == CheckTokenExpiration(heap, tokens, config.days_threshold,
                                     clock, [i \in 1..Len(tokens) |-> clock])
           r == AnalyzeAllTokens(l.heap, tokens, config.days_threshold,
                                 clock, clock)
       IN  /\ expiring_tokens' = l.expiring_tokens
           /\ heap' = r.heap
           /\ threshold_date' = r.threshold_date
           /\ current_date' = r.current_date
           /\ analysis' = IF r.raised THEN analysis ELSE r.result
           /\ pc' = IF l.raised \/ r.raised THEN "raised" ELSE "compared"
    /\ UNCHANGED <<config, clock, all_token_analysis, scope, owner, tokens,
                   entities, idx, sent, fetched, held, listed, batches, pool>>

SpecLegacy == InitLegacy /\ [][Compare]_vars

---------------------------------------------------------------------------
(* SpecMerge: _merge_analysis alone.  A set of classified records is split
   into MergeBatches batches, which are merged into the empty accumulator in
   every order *)

\* The records of h that the split f puts in batch b, in discovery order.
BatchRefs(h, f, b) == SelectSeq([i \in 1..Len(h) |-> i], LAMBDA r : f[r] = b)

RECURSIVE ClassifyBatches(_, _, _, _, _)
ClassifyBatches(h, f, days, b, done) ==
    IF b > MergeBatches THEN [heap |-> h, batches |-> done]
    ELSE LET r == AnalyzeAllTokens(h, BatchRefs(h, f, b), days, 0, 0)
         IN  ClassifyBatches(r.heap, f, days, b + 1, Append(done, r.result))

InitMerge ==
    /\ pc = "merging"
    /\ config = DefaultEnvironment(MaxThreshold)
    /\ clock = 0
    /\ \E h \in SeqsUpTo({RawToken(e, 1) : e \in RunExpiresAtValues \ {NonString}},
                         MaxRecords) :
       \E f \in [1..Len(h) -> 1..MergeBatches] :
          LET c == ClassifyBatches(h, f, config.days_threshold, 1, <<>>)
          IN  heap = c.heap /\ batches = c.batches
    /\ pool = 1..MergeBatches
    /\ all_token_analysis = EmptyAnalysis
    /\ scope = "personal"
    /\ owner = NoOwner
    /\ tokens = <<>>
    /\ analysis = EmptyAnalysis
    /\ threshold_date = 0
    /\ current_date = 0
    /\ entities = <<>>
    /\ idx = 0
    /\ sent = NoNotification
    /\ fetched = "none"
    /\ held = 0
    /\ listed = NoListing
    /\ expiring_tokens = <<>>

\* _merge_analysis(all_token_analysis, batches[b]) for any batch still to merge.
MergeAny ==
    /\ pc = "merging"
    /\ \E b \in pool :
          /\ all_token_analysis' = MergeAnalysis(all_token_analysis, batches[b])
          /\ pool' = pool \ {b}
    /\ UNCHANGED <<pc, config, clock, heap, scope, owner, tokens, analysis,
                   threshold_date, current_date, entities, idx, sent, fetched,
                   held, listed, batches, expiring_tokens>>

SpecMerge == InitMerge /\ [][MergeAny]_vars

---------------------------------------------------------------------------
(* Vocabulary of the properties *)

\* analyze_all_tokens has returned the analysis of the batch in hand.
Returned == pc \in {"attach", "merge"}

\* The latest analyze_all_tokens call has ended, by return or by exception.
CallEnded == pc \in {"attach", "merge", "raised"}

BatchRefSet == Range(tokens)

Absent(e) == e = NoneValue

Parseable(e) == e.type = "str" /\ e.text = "iso"

WallOf(e) == e.wall

InBucket(a, c, r) == r \in Range(a[c])

\* How many places of the four buckets of a hold the reference r.
Occurrences(a, r) ==
    Cardinality(UNION {{<<c, i>> : i \in {j \in DOMAIN a[c] : a[c][j] = r}} :
                          c \in CategorySet})

BucketsOf(a, r) == {c \in CategorySet : InBucket(a, c, r)}

ParsedRefs == {r \in BatchRefSet : Parseable(heap[r].expires_at)}

---------------------------------------------------------------------------
(* C1 - C7: the classifier, under SpecAnalyze *)

\* C1: the four bucket lengths of a returned analysis add up to total_count,
\* and total_count is the length of the input list, parse errors included.
C1_Totality ==
    Returned =>
        /\ Len(analysis.expired) + Len(analysis.expiring_soon)
             + Len(analysis.healthy) + Len(analysis.no_expiration)
           = analysis.total_count
        /\ analysis.total_count = Len(tokens)

C1_Witness ==
    /\ Returned
    /\ Len(tokens) >= 2
    /\ \E r \in BatchRefSet : heap[r].status = "Error"
    /\ \E r \in BatchRefSet : heap[r].status \in {"Expired", "No Expiration"}

\* C2: every input record is held exactly once by the four buckets of the
\* returned analysis (never dropped, never in two buckets or twice in one),
\* and the buckets hold input records only.
C2_Partition ==
    Returned =>
        /\ \A r \in BatchRefSet : Occurrences(analysis, r) = 1
        /\ \A c \in CategorySet : Range(analysis[c]) \subseteq BatchRefSet

C2_Witness ==
    /\ Returned
    /\ Len(tokens) >= 2
    /\ \E r \in BatchRefSet : heap[r].status = "Error"
    /\ \E r \in ParsedRefs :
          WallOf(heap[r].expires_at) <= current_date
            /\ WallOf(heap[r].expires_at) <= threshold_date

\* C3: a record with a parseable expires_at is in the expired bucket, with
\* status Expired, exactly when expires_at <= current_date; such a record is
\* in no other bucket.
C3_ExpiredFirst ==
    Returned =>
        \A r \in ParsedRefs :
            LET at == WallOf(heap[r].expires_at) IN
            /\ InBucket(analysis, "expired", r) <=> at <= current_date
            /\ heap[r].status = "Expired" <=> at <= current_date
            /\ at <= current_date => BucketsOf(analysis, r) = {"expired"}

C3_Witness ==
    /\ Returned
    /\ \E r \in ParsedRefs :
          /\ WallOf(heap[r].expires_at) = current_date
          /\ WallOf(heap[r].expires_at) <= threshold_date
          /\ heap[r].status = "Expired"
          /\ InBucket(analysis, "expired", r)

\* C4 (as claimed): a record with a parseable expires_at is Expiring Soon
\* exactly when current_date < expires_at <= current_date + threshold_days,
\* the window being measured from the instant the Expired test uses.
C4_WindowFromNow ==
    Returned =>
        \A r \in ParsedRefs :
            LET at == WallOf(heap[r].expires_at) IN
            (InBucket(analysis, "expiring_soon", r) /\ heap[r].status = "Expiring Soon")
                <=> (current_date < at
                       /\ at <= current_date + config.days_threshold * TicksPerDay)

\* C5: a record whose expires_at is absent is in the no_expiration bucket and
\* in no other, with status No Expiration and days_until_expiry Never.
C5_NoExpiration ==
    Returned =>
        \A r \in BatchRefSet :
            Absent(heap[r].expires_at) =>
                /\ BucketsOf(analysis, r) = {"no_expiration"}
                /\ heap[r].status = "No Expiration"
                /\ heap[r].days_until_expiry = DaysNever

C5_Witness ==
    /\ Returned
    /\ config.days_threshold = MaxThreshold
    /\ current_date > 0
    /\ \E r \in BatchRefSet :
          Absent(heap[r].expires_at) /\ InBucket(analysis, "no_expiration", r)

\* C6 (as claimed): once the call has ended, every record whose expires_at is
\* present but not a parseable timestamp has status Error and
\* days_until_expiry Unknown and is in the healthy bucket only.
C6_FailOpen ==
    CallEnded =>
        \A r \in BatchRefSet :
            (~Absent(heap[r].expires_at) /\ ~Parseable(heap[r].expires_at)) =>
                /\ heap[r].status = "Error"
                /\ heap[r].days_until_expiry = DaysUnknown
                /\ Returned
                /\ BucketsOf(analysis, r) = {"healthy"}

\* C7: for a record with a parseable expires_at, days_until_expiry is the
\* integer d with d days <= expires_at - current_date < d + 1 days; it is at
\* most -1 when expires_at is before current_date and at least 0 when the
\* record is not Expired.
C7_FloorDays ==
    Returned =>
        \A r \in ParsedRefs :
            LET delta == WallOf(heap[r].expires_at) - current_date
                days == heap[r].days_until_expiry
            IN  /\ days.tag = "int"
                /\ days.n * TicksPerDay <= delta
                /\ delta < (days.n + 1) * TicksPerDay
                /\ (0 <= delta /\ delta < TicksPerDay) => days.n = 0
                /\ delta < 0 => days.n <= -1
                /\ heap[r].status # "Expired" => days.n >= 0

C7_Witness ==
    /\ Returned
    /\ \E r \in ParsedRefs :
          /\ (WallOf(heap[r].expires_at) - current_date) % TicksPerDay # 0
          /\ WallOf(heap[r].expires_at) < current_date
          /\ heap[r].days_until_expiry = DaysInt(-1)
    /\ \E r \in ParsedRefs :
          /\ WallOf(heap[r].expires_at) > current_date
          /\ heap[r].days_until_expiry = DaysInt(0)

---------------------------------------------------------------------------
(* C8: the analyses of a whole run, under Spec *)

\* The record r has both computed fields, and they fit the bucket c.
FitsBucket(c, r) ==
    LET t == heap[r] IN
    /\ t.status # "None"
    /\ t.days_until_expiry # DaysUnset
    /\ c = "expired" => t.status = "Expired" /\ t.days_until_expiry.tag = "int"
    /\ c = "expiring_soon" =>
          t.status = "Expiring Soon" /\ t.days_until_expiry.tag = "int"
    /\ c = "no_expiration" =>
          t.status = "No Expiration" /\ t.days_until_expiry = DaysNever
    /\ c = "healthy" =>
          \/ t.status = "Healthy" /\ t.days_until_expiry.tag = "int"
          \/ t.status = "Error" /\ t.days_until_expiry = DaysUnknown

WellClassified(a) == \A c \in CategorySet : \A r \in Range(a[c]) : FitsBucket(c, r)

\* C8: in the analysis of the batch in hand and in the accumulator, at every
\* point of a run, every record of every bucket has status and
\* days_until_expiry set, and the status is the one of its bucket.
C8_StatusFitsBucket ==
    WellClassified(analysis) /\ WellClassified(all_token_analysis)

C8_Witness ==
    /\ pc = "complete"
    /\ \E r \in Range(all_token_analysis.healthy) :
          heap[r].status = "Error" /\ heap[r].token_type = "None"
    /\ \E r \in Range(all_token_analysis.expired) : heap[r].token_type = "group"

---------------------------------------------------------------------------
(* C9, C10: _merge_analysis, under SpecMerge *)

\* C9: a step of _merge_analysis leaves every accumulator bucket as a prefix
\* of the new one, followed by the addition's bucket in its own order; adds
\* the two total_counts; and changes neither the addition nor any record.
C9_MergeAppends ==
    [][(pc = "merging" /\ pool' # pool) =>
        \E b \in pool :
            /\ pool' = pool \ {b}
            /\ \A c \in CategorySet :
                  LET old == all_token_analysis[c]
                      new == all_token_analysis'[c]
                  IN  /\ Len(new) = Len(old) + Len(batches[b][c])
                      /\ SubSeq(new, 1, Len(old)) = old
                      /\ SubSeq(new, Len(old) + 1, Len(new)) = batches[b][c]
            /\ all_token_analysis'.total_count
                 = all_token_analysis.total_count + batches[b].total_count
            /\ batches' = batches
            /\ heap' = heap]_vars

\* Every batch is merged, and one bucket holds the records of two batches,
\* those of the batch merged later behind those of the batch merged first.
C9_Witness ==
    /\ pc = "merging"
    /\ pool = {}
    /\ all_token_analysis.total_count = MaxRecords
    /\ \E c \in CategorySet : \E b1, b2 \in 1..MergeBatches :
          /\ b1 < b2
          /\ batches[b1][c] # <<>>
          /\ batches[b2][c] # <<>>
          /\ all_token_analysis[c] = batches[b2][c] \o batches[b1][c]

\* The batches merged into the empty accumulator in the order they were built.
RECURSIVE MergedInOrder(_, _)
MergedInOrder(bs, n) ==
    IF n = 0 THEN EmptyAnalysis
    ELSE MergeAnalysis(MergedInOrder(bs, n - 1), bs[n])

SameMembership(a, b) ==
    /\ \A c \in CategorySet : Range(a[c]) = Range(b[c]) /\ Len(a[c]) = Len(b[c])
    /\ a.total_count = b.total_count

\* C10: whatever the order in which the batches were merged, the accumulator
\* ends with the same records in each bucket, the same bucket sizes and the
\* same total_count as when they are merged in the order they were built.
C10_OrderIndependent ==
    (pc = "merging" /\ pool = {}) =>
        SameMembership(all_token_analysis, MergedInOrder(batches, Len(batches)))

\* Two orders that end with the same records in a different sequence.
C10_Witness ==
    /\ pc = "merging"
    /\ pool = {}
    /\ all_token_analysis.total_count >= 2
    /\ \E c \in CategorySet :
          all_token_analysis[c] # MergedInOrder(batches, Len(batches))[c]

---------------------------------------------------------------------------
(* C11 - C17, C19: one monitoring run, under Spec *)

\* C11: no step of a run (fetching, classifying, attaching the owner's name
\* and path to the batch in hand, merging) changes any field of a record that
\* is already in the accumulator.
C11_MergedRecordsFrozen ==
    [][\A r \in Refs(all_token_analysis) :
          r \in DOMAIN heap' /\ heap'[r] = heap[r]]_vars

\* A project's batch has had the project's name attached while the
\* accumulator already holds a record of an earlier batch.
C11_Witness ==
    /\ pc = "merge"
    /\ scope = "project"
    /\ Refs(all_token_analysis) # {}
    /\ \E r \in Refs(analysis) :
          /\ r \notin Refs(all_token_analysis)
          /\ heap[r].project_name = owner.name

\* The entity of the listing es that has the id k.
Listed(es, k) == {es[i] : i \in {j \in DOMAIN es : es[j].id = k}}

\* The name and path a record of that entity has to carry.
CarriesOwner(name, path, ent) ==
    /\ name = ent.name
    /\ path = IF ent.path = "None" THEN ent.name ELSE ent.path

\* C12: every project-token record of the accumulator carries the name and
\* the path (the name, when the listing gave no path) of the one listed
\* project whose id it was fetched under, and no group field; likewise every
\* group-token record for its group; a personal-token record carries none of
\* the four fields.  This holds whenever a record is in the accumulator, and
\* so at the end of the run.
C12_OwnerMetadata ==
    \A r \in Refs(all_token_analysis) :
        LET t == heap[r] IN
        CASE t.token_type = "project" ->
                /\ Cardinality(Listed(listed.project, t.project_id)) = 1
                /\ \A ent \in Listed(listed.project, t.project_id) :
                      CarriesOwner(t.project_name, t.project_path, ent)
                /\ t.group_name = "None" /\ t.group_path = "None"
          [] t.token_type = "group" ->
                /\ Cardinality(Listed(listed.group, t.group_id)) = 1
                /\ \A ent \in Listed(listed.group, t.group_id) :
                      CarriesOwner(t.group_name, t.group_path, ent)
                /\ t.project_name = "None" /\ t.project_path = "None"
          [] OTHER ->
                /\ t.project_name = "None" /\ t.project_path = "None"
                /\ t.group_name = "None" /\ t.group_path = "None"

\* A finished run with a record of the second project, listed without a
\* path, and a record of a group listed with its path.
C12_Witness ==
    /\ pc = "complete"
    /\ \E r \in Refs(all_token_analysis) :
          /\ heap[r].token_type = "project"
          /\ heap[r].project_id = 2
          /\ heap[r].project_path = heap[r].project_name
    /\ \E r \in Refs(all_token_analysis) :
          /\ heap[r].token_type = "group"
          /\ heap[r].group_path # heap[r].group_name

\* C13: for the accumulator at every point of a run, get_summary_stats gives
\* problematic_count = expired_count + expiring_count and total_tokens =
\* expired_count + expiring_count + healthy_count + permanent_count.
C13_StatsAddUp ==
    LET stats == GetSummaryStats(all_token_analysis) IN
    /\ stats.problematic_count = stats.expired_count + stats.expiring_count
    /\ stats.total_tokens = stats.expired_count + stats.expiring_count
                              + stats.healthy_count + stats.permanent_count

\* The accumulator of a finished run, built from the personal batch and a
\* group's batch, with a problematic and an unproblematic record.
C13_Witness ==
    /\ pc = "complete"
    /\ GetSummaryStats(all_token_analysis).problematic_count > 0
    /\ GetSummaryStats(all_token_analysis).problematic_count
         < GetSummaryStats(all_token_analysis).total_tokens
    /\ \E r \in Refs(all_token_analysis) : heap[r].token_type = "None"
    /\ \E r \in Refs(all_token_analysis) : heap[r].token_type = "group"

\* The report went to the SMTP server, whether or not it got through.
DeliveryAttempted == sent.outcome \in {"delivered", "failed"}

\* C14: a run that reaches its end has attempted to deliver the report
\* exactly when problematic_count > 0 or SEND_ALL_TOKENS is set; otherwise
\* send_notification was not called and nothing was raised; and whenever
\* send_notification was called it did not take its own skip branch.
C14_NotifyGate ==
    pc = "complete" =>
        LET stats == GetSummaryStats(all_token_analysis) IN
        /\ DeliveryAttempted
              <=> (stats.problematic_count > 0 \/ config.send_all_tokens)
        /\ ~DeliveryAttempted => sent = NoNotification
        /\ sent.called => sent.outcome # "skipped"

\* A finished run that called send_notification for a problematic token
\* alone, the flag being off, and saw the report delivered.
C14_Witness ==
    /\ pc = "complete"
    /\ GetSummaryStats(all_token_analysis).problematic_count > 0
    /\ ~config.send_all_tokens
    /\ sent.called
    /\ sent.include_all_tokens = "False"
    /\ sent.outcome = "delivered"

\* The request for the batch in hand ended in a RequestException.
FetchFailed == fetched = "failed"

\* C15: a fetch that fails allocates no record, hands on the empty list and
\* raises nothing: the personal batch goes on to be classified, the loop
\* over projects (groups) goes on to the next one.  While the failed batch is
\* in hand no step changes the accumulator's buckets or its total_count, and
\* no step ends the run with an exception.
C15_FailedFetchIsEmptyBatch ==
    [][/\ FetchFailed' /\ pc \in {"fetch_personal", "for"} =>
            /\ heap' = heap
            /\ tokens' = <<>>
            /\ all_token_analysis' = all_token_analysis
            /\ pc = "fetch_personal" => pc' = "analyze"
            /\ pc = "for" => /\ pc' = "for"
                             /\ entities' = entities
                             /\ idx' = idx + 1
       /\ FetchFailed =>
            /\ all_token_analysis' = all_token_analysis
            /\ pc' \notin {"raised", "exit"}
            /\ pc = "merge" => pc' \in {"list_projects", "list_groups", "notify"}
      ]_vars

\* The fetch for the first of two projects failed, the accumulator holding
\* the personal batch, and the loop stands at the second project.
C15_Witness ==
    /\ FetchFailed
    /\ pc = "for"
    /\ scope = "project"
    /\ Len(entities) = 2
    /\ idx = 2
    /\ all_token_analysis.total_count > 0

\* C16: when the delivery of the report fails, send_notification returns
\* without an exception and the run stands at its completion, never at an
\* abort.
C16_DeliveryFailureContained ==
    sent.outcome = "failed" => pc = "complete"

\* The delivery of a report on a problematic token failed, and the run is
\* complete.
C16_Witness ==
    /\ sent.called
    /\ sent.outcome = "failed"
    /\ GetSummaryStats(all_token_analysis).problematic_count > 0
    /\ pc = "complete"

\* The variable is unset (it reads as its placeholder), left at the
\* placeholder, or set to nothing.
NotProvided(value, placeholder) == value \in {placeholder, ""}

\* C17: when GITLAB_ADMIN_TOKEN or FROM_EMAIL is not provided, main gets no
\* further than the exit of the process with status 1 (sys.exit(1), which no
\* except clause of main takes): no request was made, no token fetched or
\* classified, no report attempted.
C17_ConfigFailureFatal ==
    (NotProvided(config.admin_token, "your-admin-token")
       \/ NotProvided(config.from_email, "alerts@yourcompany.com")) =>
        /\ pc \in {"main", "exit"}
        /\ fetched = "none"
        /\ listed = NoListing
        /\ heap = <<>>
        /\ all_token_analysis = EmptyAnalysis
        /\ analysis = EmptyAnalysis
        /\ sent = NoNotification

\* The process has exited on a sender address left at its placeholder, the
\* admin token being in order.
C17_Witness ==
    /\ pc = "exit"
    /\ ~NotProvided(config.admin_token, "your-admin-token")
    /\ config.from_email = "alerts@yourcompany.com"

\* C19 (as claimed): when GITLAB_URL, GITLAB_ADMIN_TOKEN or FROM_EMAIL is not
\* provided, the configuration does not load and the run does not start.
C19_AllThreeRequired ==
    (NotProvided(config.gitlab_url, "https://your-gitlab.com")
       \/ NotProvided(config.admin_token, "your-admin-token")
       \/ NotProvided(config.from_email, "alerts@yourcompany.com")) =>
        pc \in {"main", "exit"}

---------------------------------------------------------------------------
(* C18, C20: the classifier again, under SpecAnalyze *)

\* C18 (as claimed): whatever the expires_at values of a batch, the call
\* ends by returning, and the analysis it returns holds every record of the
\* batch, classified.
C18_NeverRaises ==
    CallEnded =>
        /\ pc # "raised"
        /\ \A r \in BatchRefSet :
              heap[r].status # "None" /\ BucketsOf(analysis, r) # {}

\* C20: two records of a batch whose timestamps read the same wall-clock
\* time get the same status, the same days_until_expiry and the same bucket,
\* whatever their UTC designators (none, Z, an explicit offset).
C20_DesignatorIgnored ==
    Returned =>
        \A r1, r2 \in ParsedRefs :
            WallOf(heap[r1].expires_at) = WallOf(heap[r2].expires_at) =>
                /\ heap[r1].status = heap[r2].status
                /\ heap[r1].days_until_expiry = heap[r2].days_until_expiry
                /\ BucketsOf(analysis, r1) = BucketsOf(analysis, r2)

\* A classified batch of two timestamps with the same reading, one with an
\* explicit offset and one with Z.
C20_Witness ==
    /\ Returned
    /\ \E r1, r2 \in ParsedRefs :
          /\ heap[r1].expires_at.tz = "+05:00"
          /\ heap[r2].expires_at.tz = "Z"
          /\ WallOf(heap[r1].expires_at) = WallOf(heap[r2].expires_at)
          /\ heap[r1].days_until_expiry.tag = "int"
          /\ heap[r2].days_until_expiry.tag = "int"

---------------------------------------------------------------------------
(* C21 - C26: one monitoring run, under Spec *)

\* The batch a token dict was fetched in: the personal batch, or the batch of
\* one project or one group.
BatchOf(t) == <<t.token_type, t.project_id, t.group_id>>

\* The place of a token dict's batch in the order of the fetches: the
\* personal batch, the projects as listed, the groups as listed.
FetchRank(t) ==
    CASE t.token_type = "project" -> (MaxEntities + 1) + t.project_id
      [] t.token_type = "group" -> 2 * (MaxEntities + 1) + t.group_id
      [] OTHER -> 0

WithOwnerFieldsOf(t, u, s) ==
    IF s = "project"
    THEN [t EXCEPT !.project_name = u.project_name,
                   !.project_path = u.project_path]
    ELSE [t EXCEPT !.group_name = u.group_name, !.group_path = u.group_path]

\* C22: the attachment step changes, of any record, at most project_name and
\* project_path (group_name and group_path for a group's batch): status,
\* days_until_expiry, expires_at and every other field stay; the analysis of
\* the batch (its buckets, their sizes, total_count) and the accumulator stay.
C22_AttachKeepsClassification ==
    [][pc = "attach" =>
        /\ analysis' = analysis
        /\ all_token_analysis' = all_token_analysis
        /\ DOMAIN heap' = DOMAIN heap
        /\ \A r \in DOMAIN heap :
              heap'[r] = WithOwnerFieldsOf(heap[r], heap'[r], scope)]_vars

\* A group's batch after the attachment, with an expired record that carries
\* the group's name.
C22_Witness ==
    /\ pc = "merge"
    /\ scope = "group"
    /\ \E r \in Range(analysis.expired) :
          /\ heap[r].group_name = owner.name
          /\ heap[r].status = "Expired"
          /\ heap[r].days_until_expiry.tag = "int"

\* The scope of the batch a token dict was fetched in.
ScopeFetchedIn(t) ==
    IF t.token_type \in {"project", "group"} THEN t.token_type ELSE "personal"

\* The groups of group_tokens_by_type, over the four buckets of the
\* accumulator, that hold the record r.
TypeGroupsHolding(r) ==
    {g \in {"personal", "project", "group"} :
        \E c \in CategorySet :
            r \in Range(GroupTokensByType(heap, all_token_analysis[c])[g])}

\* C23 (as claimed): every record of the accumulator is in exactly one of
\* the three groups of group_tokens_by_type, the one of the scope it was
\* fetched in, a personal-token record without a user id included.
C23_TypeAttribution ==
    \A r \in Refs(all_token_analysis) :
        TypeGroupsHolding(r) = {ScopeFetchedIn(heap[r])}

\* The listing of projects (groups) just ended with a request that failed.
ListingFailed == fetched = "listing_failed"

\* C24 (as claimed): when a request of a listing fails, a request for a
\* later page after earlier pages succeeded included, the list handed to the
\* run is empty.
C24_FailedListingIsEmpty == ListingFailed => entities = <<>>

\* C25 (as claimed): a batch whose request did not fail holds every token
\* the platform holds for it, however many pages the platform needs.
C25_BatchComplete ==
    (pc = "analyze" /\ fetched = "ok") => Len(tokens) = held

\* C26 (as claimed): two records of the accumulator with the same parseable
\* expires_at have the same status and the same days_until_expiry and are in
\* the same bucket, whichever batches they were fetched in.
C26_PointInTime ==
    \A r1, r2 \in Refs(all_token_analysis) :
        (/\ Parseable(heap[r1].expires_at)
         /\ heap[r1].expires_at = heap[r2].expires_at)
        => /\ heap[r1].status = heap[r2].status
           /\ heap[r1].days_until_expiry = heap[r2].days_until_expiry
           /\ BucketsOf(all_token_analysis, r1)
                = BucketsOf(all_token_analysis, r2)

---------------------------------------------------------------------------
(* C27: the legacy check against the analyzer, under SpecLegacy *)

\* The dicts check_token_expiration returned.
LegacyRefs == {expiring_tokens[i].ref : i \in 1..Len(expiring_tokens)}

\* What the two agree on when they do: the legacy list holds the records of
\* the expired and expiring_soon buckets and no other, each with the
\* days_until_expiry the analyzer wrote, and no record whose expires_at is
\* absent or does not parse.
LegacyAgrees ==
    /\ LegacyRefs = Range(analysis.expired) \cup Range(analysis.expiring_soon)
    /\ \A i \in 1..Len(expiring_tokens) :
          expiring_tokens[i].days_until_expiry
            = heap[expiring_tokens[i].ref].days_until_expiry
    /\ \A r \in BatchRefSet :
          ~Parseable(heap[r].expires_at)
          => /\ r \notin LegacyRefs
             /\ r \notin Range(analysis.expired)
             /\ r \notin Range(analysis.expiring_soon)

\* C27 (as claimed): for every token list, every threshold and every frozen
\* instant, the records check_token_expiration returns are those of the
\* expired and expiring_soon buckets of analyze_all_tokens, with the same
\* days_until_expiry; absent and unparseable expires_at are in neither.
C27_LegacyAgrees == pc = "compared" => LegacyAgrees

\* C27 (amended): the same agreement, for every token list, every frozen
\* instant and every threshold that is not negative.
C27_LegacyAgreesFromZero ==
    (pc = "compared" /\ config.days_threshold >= 0) => LegacyAgrees

\* Both functions returned, under a threshold of a day, on a list of an
\* expired token and one inside the window: the legacy list holds both.
C27_Witness ==
    /\ pc = "compared"
    /\ config.days_threshold > 0
    /\ Len(expiring_tokens) = 2
    /\ Len(analysis.expired) = 1
    /\ Len(analysis.expiring_soon) = 1

---------------------------------------------------------------------------
(* C28: the zero threshold, under SpecAnalyze *)

\* C28: with a threshold of zero days a returned analysis has an empty
\* expiring_soon bucket, and every record with a parseable expires_at is
\* Expired or Healthy: threshold_date is read from the clock before
\* current_date, and the clock does not run backwards.
C28_ZeroThresholdNoWindow ==
    (Returned /\ config.days_threshold = 0)
    => /\ analysis.expiring_soon = <<>>
       /\ \A r \in ParsedRefs : heap[r].status \in {"Expired", "Healthy"}
       /\ \A r \in BatchRefSet : heap[r].status # "Expiring Soon"

\* A zero-threshold call during which the clock moved, on a batch with a
\* record that expires after threshold_date and not after current_date
\* (Expired) and one that expires later (Healthy).
C28_Witness ==
    /\ Returned
    /\ config.days_threshold = 0
    /\ threshold_date < current_date
    /\ \E r \in ParsedRefs :
          /\ threshold_date < WallOf(heap[r].expires_at)
          /\ WallOf(heap[r].expires_at) <= current_date
          /\ heap[r].status = "Expired"
    /\ \E r \in ParsedRefs : heap[r].status = "Healthy"

====
